---------------------------- MODULE Spec2Model ----------------------------
(***************************************************************************)
(* Model of win_activity_viewer_pro.py: the extractors (recent files,      *)
(* event logs, browser histories), the snapshot helper they share, the     *)
(* button handlers that build the displayed / exported text, and the       *)
(* timer-driven reveal of that text in the output pane.                    *)
(*                                                                         *)
(* Python strings are modelled as sequences of fragments (a fragment is a  *)
(* record [k, a]); concatenation is \o, "\n" is the fragment NL, and       *)
(* str.splitlines / str.join are computed on these sequences.  Non-ASCII   *)
(* characters of the literals are transliterated.                          *)
(***************************************************************************)
EXTENDS Integers, Sequences, FiniteSets, TLC

VARIABLES
    fn,         \* the extractor that returned last ("none" before any call)
    limit,      \* its limit / max_events argument
    src,        \* the state of the source that call saw
    result,     \* the list it returned
    raised,     \* TRUE when an exception left the call instead of a return
    examined,   \* get_event_logs: entries the loop looked at
    made,       \* temporary files allocated (mkstemp) by the call
    copies,     \* shutil.copy2 calls that completed during the call
    opens,      \* sqlite3.connect calls made during the call
    tmpFiles,   \* temporary files that exist on disk
    handles,    \* event-log handles that are open
    handler,    \* the button handler that ran last ("none" before any)
    invoked,    \* the extractors that handler called and that returned
    text,       \* the text it built (text / body), <<>> if it built none
    dialog,     \* on_export: "open" while the save dialog is up, then the
                \* message box shown ("information", "critical") or "none"
    written,    \* what on_export wrote to the chosen file
    output,     \* self.output: the paragraphs shown in the pane
    lines,      \* self._lines
    line_index, \* self._line_index
    timers,     \* running QTimers: type, whether self._type_timer runs; old,
                \* whether a timer that it replaced is still running
    shown       \* the lines of the text given to the last fade_in_output

extractVars == <<fn, limit, src, result, raised, examined, made, copies, opens>>
resVars == <<tmpFiles, handles>>
passVars == <<handler, invoked, text, dialog, written>>
fadeVars == <<output, lines, line_index, timers, shown>>
vars == <<extractVars, resVars, passVars, fadeVars>>

---------------------------------------------------------------------------
(* Bounds of the model *)

MaxLimit == 3
MaxEntries == 3
MaxLog == 3
MaxRows == 2
MaxTmp == 1
MaxHandles == 1
MaxText == 3

---------------------------------------------------------------------------
(* Strings *)

Str(s) == [k |-> s, a |-> <<>>]
NL == Str("\n")
Keine == <<Str("Keine Eintraege.")>>

Min(a, b) == IF a <= b THEN a ELSE b

Take(s, n) == SubSeq(s, 1, Min(n, Len(s)))

\* sep.join(items)
RECURSIVE Join(_, _)
Join(sep, items) ==
    IF items = <<>> THEN <<>>
    ELSE IF Len(items) = 1 THEN items[1]
    ELSE items[1] \o sep \o Join(sep, Tail(items))

\* text.splitlines(): split at every "\n"; no empty last line after a final "\n"
RECURSIVE SplitFrom(_, _, _)
SplitFrom(t, cur, acc) ==
    IF t = <<>> THEN (IF cur = <<>> THEN acc ELSE Append(acc, cur))
    ELSE IF Head(t) = NL THEN SplitFrom(Tail(t), <<>>, Append(acc, cur))
    ELSE SplitFrom(Tail(t), Append(cur, Head(t)), acc)

splitlines(t) == SplitFrom(t, <<>>, <<>>)

\* python's order on str: lexicographic, a proper prefix first
RECURSIVE LexLess(_, _)
LexLess(a, b) ==
    IF b = <<>> THEN FALSE
    ELSE IF a = <<>> THEN TRUE
    ELSE IF a[1] # b[1] THEN a[1] < b[1]
    ELSE LexLess(Tail(a), Tail(b))

\* sorted(S, reverse=True) of distinct names
RECURSIVE SortedReverse(_)
SortedReverse(S) ==
    IF S = {} THEN <<>>
    ELSE LET m == CHOOSE x \in S : \A y \in S : y = x \/ LexLess(y, x)
         IN  <<m>> \o SortedReverse(S \ {m})

---------------------------------------------------------------------------
(* The sources the extractors read *)

\* File names: strings over a two-letter alphabet (1 < 2)
Names == {<<1>>, <<2>>, <<1, 1>>, <<1, 2>>, <<2, 1>>}

\* The Recent folder: absent, or present with a listing that may fail;
\* kind[n] tells whether entry n is a regular file or a directory.
Dirs ==
    {[exists |-> FALSE, listOk |-> TRUE, kind |-> <<>>]}
    \cup {[exists |-> TRUE, listOk |-> FALSE, kind |-> <<>>]}
    \cup UNION {[exists : {TRUE}, listOk : {TRUE}, kind : [S -> {"file", "dir"}]] :
                    S \in {T \in SUBSET Names : Cardinality(T) <= MaxEntries}}

\* An event-log record: its EventID (qualifier bits in the upper half) and
\* whether its TimeGenerated can be formatted.
Events ==
    {[id |-> 1, tsOk |-> TRUE], [id |-> 2, tsOk |-> TRUE],
     [id |-> 65539, tsOk |-> TRUE], [id |-> 1, tsOk |-> FALSE]}

RECURSIVE SeqsUpTo(_, _)
SeqsUpTo(S, n) ==
    IF n = 0 THEN {<<>>}
    ELSE LET shorter == SeqsUpTo(S, n - 1)
         IN  shorter \cup {Append(s, x) : s \in {t \in shorter : Len(t) = n - 1}, x \in S}

\* A channel: whether OpenEventLog / ReadEventLog succeed, the records newest
\* first, and how many of them one ReadEventLog call returns (one buffer).
ChannelsOver(E, n) ==
    {[openOk |-> FALSE, readOk |-> TRUE, log |-> <<>>, batch |-> 0]}
    \cup {[openOk |-> TRUE, readOk |-> FALSE, log |-> <<>>, batch |-> 0]}
    \cup UNION {[openOk : {TRUE}, readOk : {TRUE}, log : {l},
                 batch : IF l = <<>> THEN {0} ELSE 1..Len(l)] :
                    l \in SeqsUpTo(E, n)}

Channels == ChannelsOver(Events, MaxLog)

\* event_ids arguments: None, or a list of codes
Filters == {[none |-> TRUE, ids |-> {}], [none |-> FALSE, ids |-> {1, 2}],
            [none |-> FALSE, ids |-> {1}]}

\* A history table: visit time -> [url, title]; title 0 is the empty string
Tables ==
    UNION {[T -> [url : {1}, title : {0, 1}]] :
                T \in {U \in SUBSET (1..MaxRows) : TRUE}}

\* A history file and what goes wrong when it is snapshotted and queried.
\* Each flag is only drawn where the code gets that far.
Dbs ==
    {d \in [exists : BOOLEAN, mkstempOk : BOOLEAN, copyOk : BOOLEAN,
            queryOk : BOOLEAN, removeOk : BOOLEAN, table : Tables] :
        /\ ~d.exists => d.mkstempOk
        /\ ~(d.exists /\ d.mkstempOk) => d.copyOk
        /\ ~(d.exists /\ d.mkstempOk /\ d.copyOk) => (d.queryOk /\ d.removeOk)
        /\ ~(d.exists /\ d.mkstempOk /\ d.copyOk /\ d.queryOk) => d.table = <<>>}

AbsentDb == [exists |-> FALSE, mkstempOk |-> TRUE, copyOk |-> TRUE,
             queryOk |-> TRUE, removeOk |-> TRUE, table |-> <<>>]

\* The Firefox Profiles folder and the places.sqlite of its first profile
Profiles ==
    {[exists |-> FALSE, listOk |-> TRUE, profs |-> 0, db |-> AbsentDb]}
    \cup {[exists |-> TRUE, listOk |-> FALSE, profs |-> 0, db |-> AbsentDb]}
    \cup {[exists |-> TRUE, listOk |-> TRUE, profs |-> 0, db |-> AbsentDb]}
    \cup [exists : {TRUE}, listOk : {TRUE}, profs : {1}, db : Dbs]

---------------------------------------------------------------------------
(* Utility / data functions *)

\* mkstemp: a name no existing file has
FreshTmp(tmp) == CHOOSE i \in 1..(Cardinality(tmp) + 1) :
                    i \notin tmp /\ \A j \in 1..(i - 1) : j \in tmp

\* path 0 is None
safe_copy_db(db, tmp) ==
    IF ~db.exists THEN [path |-> 0, tmp |-> tmp, made |-> {}, copies |-> 0]
    ELSE IF ~db.mkstempOk THEN [path |-> 0, tmp |-> tmp, made |-> {}, copies |-> 0]
    ELSE LET tmp_path == FreshTmp(tmp)
         IN  IF ~db.copyOk
             THEN [path |-> 0, tmp |-> tmp \cup {tmp_path},
                   made |-> {tmp_path}, copies |-> 0]
             ELSE [path |-> tmp_path, tmp |-> tmp \cup {tmp_path},
                   made |-> {tmp_path}, copies |-> 1]

\* ORDER BY <visit time> DESC LIMIT lim
RECURSIVE OrderByDesc(_, _)
OrderByDesc(table, T) ==
    IF T = {} THEN <<>>
    ELSE LET t == CHOOSE x \in T : \A y \in T : y <= x
         IN  <<<<table[t].url, table[t].title, t>>>> \o OrderByDesc(table, T \ {t})

\* LIMIT off by one
Select_OffByOne(table, lim) == Take(OrderByDesc(table, DOMAIN table), lim + 1)

Select(table, lim) == Take(OrderByDesc(table, DOMAIN table), lim)

\* connect / execute outside any try: a corrupt store raises, and the
\* temporary file is not removed
query_sqlite_file_Unguarded(db, lim, tmp) ==
    LET c == safe_copy_db(db, tmp)
    IN  IF c.path = 0
        THEN [raised |-> FALSE, rows |-> <<>>, tmp |-> c.tmp, made |-> c.made,
              copies |-> c.copies, opens |-> 0]
        ELSE IF ~db.queryOk
        THEN [raised |-> TRUE, rows |-> <<>>, tmp |-> c.tmp, made |-> c.made,
              copies |-> c.copies, opens |-> 1]
        ELSE [raised |-> FALSE, rows |-> Select(db.table, lim),
              tmp |-> IF db.removeOk THEN c.tmp \ {c.path} ELSE c.tmp,
              made |-> c.made, copies |-> c.copies, opens |-> 1]

query_sqlite_file(db, lim, tmp) ==
    LET c == safe_copy_db(db, tmp)
    IN  IF c.path = 0
        THEN [raised |-> FALSE, rows |-> <<>>, tmp |-> c.tmp, made |-> c.made,
              copies |-> c.copies, opens |-> 0]
        ELSE [raised |-> FALSE,
              rows |-> IF db.queryOk THEN Select(db.table, lim) ELSE <<>>,
              tmp |-> IF db.removeOk THEN c.tmp \ {c.path} ELSE c.tmp,
              made |-> c.made, copies |-> c.copies, opens |-> 1]

\* truncating the listing before the directories are filtered out
get_recent_files_TruncateFirst(dir, lim) ==
    IF ~dir.exists THEN [raised |-> FALSE, value |-> <<>>]
    ELSE IF ~dir.listOk THEN [raised |-> FALSE, value |-> <<>>]
    ELSE LET entries == Take(SortedReverse(DOMAIN dir.kind), lim)
             files == SelectSeq(entries, LAMBDA e : dir.kind[e] = "file")
         IN  [raised |-> FALSE,
              value |-> [i \in 1..Len(files) |-> <<[k |-> "name", a |-> files[i]]>>]]

get_recent_files(dir, lim) ==
    IF ~dir.exists THEN [raised |-> FALSE, value |-> <<>>]
    ELSE IF ~dir.listOk THEN [raised |-> FALSE, value |-> <<>>]
    ELSE LET entries == SortedReverse(DOMAIN dir.kind)
             files == SelectSeq(entries, LAMBDA e : dir.kind[e] = "file")
         IN  [raised |-> FALSE,
              value |-> [i \in 1..Min(lim, Len(files)) |->
                            <<[k |-> "name", a |-> files[i]]>>]]

\* f"{ts_str}  |  EventID: {ev_id}  |  Source: ..."
EventLine(ev_id) == <<[k |-> "event", a |-> <<ev_id>>]>>
Fehler == <<Str("Fehler: "), Str("e")>>
FehlerLesen == <<Str("Fehler beim Lesen des EventLogs: "), Str("e")>>

\* win32evtlog.ReadEventLog(handle, flags, 0): one buffer of records
ReadEventLog(ch) == Take(ch.log, ch.batch)

\* the for loop over events; failed: an exception left the loop
RECURSIVE ScanEvents(_, _, _, _, _, _)
ScanEvents(events, i, results, count, event_ids, max_events) ==
    IF i > Len(events)
    THEN [results |-> results, examined |-> Len(events), failed |-> FALSE]
    ELSE LET ev_id == events[i].id % 65536
         IN  IF event_ids.none \/ ev_id \in event_ids.ids
             THEN IF ~events[i].tsOk
                  THEN [results |-> results, examined |-> i, failed |-> TRUE]
                  ELSE IF count + 1 >= max_events
                       THEN [results |-> Append(results, EventLine(ev_id)),
                             examined |-> i, failed |-> FALSE]
                       ELSE ScanEvents(events, i + 1,
                                       Append(results, EventLine(ev_id)),
                                       count + 1, event_ids, max_events)
             ELSE ScanEvents(events, i + 1, results, count, event_ids, max_events)

\* OpenEventLog called outside any try
get_event_logs_OpenUnguarded(ch, event_ids, max_events) ==
    IF ~ch.openOk
    THEN [raised |-> TRUE, value |-> <<>>, examined |-> 0, opened |-> FALSE]
    ELSE IF ~ch.readOk
    THEN [raised |-> FALSE, value |-> <<FehlerLesen>>, examined |-> 0,
          opened |-> TRUE]
    ELSE LET s == ScanEvents(ReadEventLog(ch), 1, <<>>, 0, event_ids, max_events)
         IN  [raised |-> FALSE,
              value |-> IF s.failed THEN Append(s.results, FehlerLesen)
                        ELSE s.results,
              examined |-> s.examined, opened |-> TRUE]

\* opened: OpenEventLog returned a handle.  The function has no
\* CloseEventLog call on any path.
get_event_logs(ch, event_ids, max_events) ==
    IF ~ch.openOk
    THEN [raised |-> FALSE, value |-> <<Fehler>>, examined |-> 0, opened |-> FALSE]
    ELSE IF ~ch.readOk
    THEN [raised |-> FALSE, value |-> <<FehlerLesen>>, examined |-> 0,
          opened |-> TRUE]
    ELSE LET s == ScanEvents(ReadEventLog(ch), 1, <<>>, 0, event_ids, max_events)
         IN  [raised |-> FALSE,
              value |-> IF s.failed THEN Append(s.results, FehlerLesen)
                        ELSE s.results,
              examined |-> s.examined, opened |-> TRUE]

\* f"{title or '-'}  -  {url}"
VisitLine(r) ==
    <<IF r[2] = 0 THEN Str("-") ELSE [k |-> "title", a |-> <<r[2]>>],
      Str("  -  "), [k |-> "url", a |-> <<r[1]>>]>>

HistoryLines(rows) == [i \in 1..Len(rows) |-> VisitLine(rows[i])]

NoQuery(tmp) == [raised |-> FALSE, value |-> <<>>, tmp |-> tmp, made |-> {},
                 copies |-> 0, opens |-> 0]

FromQuery(q) == [raised |-> q.raised, value |-> HistoryLines(q.rows), tmp |-> q.tmp,
                 made |-> q.made, copies |-> q.copies, opens |-> q.opens]

get_chrome_history(db, lim, tmp) ==
    IF ~db.exists THEN NoQuery(tmp)
    ELSE FromQuery(query_sqlite_file(db, lim, tmp))

get_edge_history(db, lim, tmp) ==
    IF ~db.exists THEN NoQuery(tmp)
    ELSE FromQuery(query_sqlite_file(db, lim, tmp))

get_firefox_history(p, lim, tmp) ==
    IF ~p.exists THEN NoQuery(tmp)
    ELSE IF ~p.listOk THEN NoQuery(tmp)
    ELSE IF p.profs = 0 THEN NoQuery(tmp)
    ELSE LET q == query_sqlite_file(p.db, lim, tmp)
         IN  IF q.raised THEN [FromQuery(q) EXCEPT !.raised = FALSE, !.value = <<>>]
             ELSE FromQuery(q)

---------------------------------------------------------------------------
(* Extractor calls, each against a source state chosen by the environment *)

InitExtract ==
    /\ fn = "none" /\ limit = 0 /\ src = <<>> /\ result = <<>>
    /\ raised = FALSE /\ examined = 0 /\ made = {} /\ copies = 0 /\ opens = 0
    /\ tmpFiles = {} /\ handles = 0

InitPass ==
    /\ handler = "none" /\ invoked = <<>> /\ text = <<>>
    /\ dialog = "none" /\ written = <<>>

InitFade ==
    /\ output = <<>> /\ lines = <<>> /\ line_index = 0
    /\ timers = [type |-> FALSE, old |-> FALSE] /\ shown = <<>>

Init == InitExtract /\ InitPass /\ InitFade

\* Calls are made one at a time from the GUI thread; Idle is the caller being
\* done with the returned list, after which the next call can be made.
GetRecentFiles ==
    /\ fn = "none"
    /\ \E dir \in Dirs, lim \in 0..MaxLimit :
        LET r == get_recent_files(dir, lim)
        IN  /\ fn' = "get_recent_files" /\ limit' = lim /\ src' = dir
            /\ result' = r.value /\ raised' = r.raised
            /\ examined' = 0 /\ made' = {} /\ copies' = 0 /\ opens' = 0
            /\ UNCHANGED <<resVars, passVars, fadeVars>>

\* The handle object is dropped at return without CloseEventLog; whether the
\* operating-system handle is released then is left to its finaliser.
GetEventLogs ==
    /\ fn = "none"
    /\ \E ch \in Channels, ids \in Filters, lim \in 0..MaxLimit, finalised \in BOOLEAN :
        LET r == get_event_logs(ch, ids, lim)
        IN  /\ fn' = "get_event_logs" /\ limit' = lim
            /\ src' = [ch |-> ch, event_ids |-> ids]
            /\ result' = r.value /\ raised' = r.raised
            /\ examined' = r.examined /\ made' = {} /\ copies' = 0 /\ opens' = 0
            /\ handles' = IF r.opened /\ ~finalised THEN handles + 1 ELSE handles
            /\ handles' <= MaxHandles
            /\ UNCHANGED <<tmpFiles, passVars, fadeVars>>

History(name, s, lim, r) ==
    /\ fn' = name /\ limit' = lim /\ src' = s
    /\ result' = r.value /\ raised' = r.raised
    /\ examined' = 0 /\ made' = r.made /\ copies' = r.copies /\ opens' = r.opens
    /\ tmpFiles' = r.tmp
    /\ Cardinality(tmpFiles') <= MaxTmp
    /\ UNCHANGED <<handles, passVars, fadeVars>>

GetChromeHistory ==
    /\ fn = "none"
    /\ \E db \in Dbs, lim \in 0..MaxLimit :
        History("get_chrome_history", db, lim, get_chrome_history(db, lim, tmpFiles))

GetEdgeHistory ==
    /\ fn = "none"
    /\ \E db \in Dbs, lim \in 0..MaxLimit :
        History("get_edge_history", db, lim, get_edge_history(db, lim, tmpFiles))

GetFirefoxHistory ==
    /\ fn = "none"
    /\ \E p \in Profiles, lim \in 0..MaxLimit :
        History("get_firefox_history", p, lim, get_firefox_history(p, lim, tmpFiles))

Idle ==
    /\ fn # "none"
    /\ fn' = "none" /\ limit' = 0 /\ src' = <<>> /\ result' = <<>>
    /\ raised' = FALSE /\ examined' = 0 /\ made' = {} /\ copies' = 0 /\ opens' = 0
    /\ UNCHANGED <<resVars, passVars, fadeVars>>

Next ==
    \/ GetRecentFiles
    \/ GetEventLogs
    \/ GetChromeHistory
    \/ GetEdgeHistory
    \/ GetFirefoxHistory
    \/ Idle

Spec == Init /\ [][Next]_vars

---------------------------------------------------------------------------
(* The output pane and its typewriter timers *)

\* fade_in_output on the pane state f = [output, lines, line_index, timers].
\* A new QTimer becomes self._type_timer; the one it replaces is not stopped
\* and, being a child of the widget, keeps firing.
fade_in_output(t, f) ==
    LET ls == splitlines(t)
    IN  IF ls = <<>>
        THEN [f EXCEPT !.output = <<>>]
        ELSE [output |-> <<>>, lines |-> ls, line_index |-> 0,
              timers |-> [type |-> TRUE, old |-> f.timers.old \/ f.timers.type]]

\* _append_line, the slot of every timer's timeout
append_line(f) ==
    IF f.line_index >= Len(f.lines)
    THEN [f EXCEPT !.timers.type = FALSE]
    ELSE [f EXCEPT !.output = Append(f.output, f.lines[f.line_index + 1]),
                   !.line_index = f.line_index + 1]

Pane == [output |-> output, lines |-> lines, line_index |-> line_index,
         timers |-> timers]

SetPane(f) ==
    /\ output' = f.output /\ lines' = f.lines
    /\ line_index' = f.line_index /\ timers' = f.timers

\* Texts handed to fade_in_output: strings over two letters and "\n"
Texts == SeqsUpTo({Str("a"), Str("b"), NL}, MaxText)

FadeInOutput ==
    \E t \in Texts :
        /\ SetPane(fade_in_output(t, Pane))
        /\ shown' = splitlines(t)
        /\ UNCHANGED <<extractVars, resVars, passVars>>

\* a running timer times out
AppendLine ==
    /\ timers.type \/ timers.old
    /\ SetPane(append_line(Pane))
    /\ UNCHANGED <<shown, extractVars, resVars, passVars>>

NextFade == FadeInOutput \/ AppendLine

SpecFade == Init /\ [][NextFade]_vars

---------------------------------------------------------------------------
(* Button handlers (gather + display) *)

\* the placeholder forgotten
Body_NoPlaceholder(items) == Join(<<NL>>, items)

\* items joined by "\n", or the placeholder when the list is empty
Body(items) == IF items # <<>> THEN Join(<<NL>>, items) ELSE Keine

\* f" - {f}\n" for every file
RECURSIVE FileItems(_)
FileItems(files) ==
    IF files = <<>> THEN <<>>
    ELSE <<Str(" - ")>> \o Head(files) \o <<NL>> \o FileItems(Tail(files))

Ids(S) == [none |-> FALSE, ids |-> S]

on_files_text(files) ==
    <<Str("Zuletzt geoeffnete Dateien:"), NL, NL>>
    \o (IF files = <<>> THEN <<Str("Keine Eintraege gefunden.")>>
        ELSE FileItems(files))

on_logons_text(logs) == <<Str("An-/Abmeldungen:"), NL, NL>> \o Body(logs)

on_start_text(logs) == <<Str("Start / Herunterfahren:"), NL, NL>> \o Body(logs)

on_browser_text(chrome, edge, firefox) ==
    <<Str("Browser-Verlauf"), NL, NL, Str("--- Chrome ---"), NL>>
    \o Body(chrome) \o <<NL, NL>>
    \o <<Str("--- Edge ---"), NL>> \o Body(edge) \o <<NL, NL>>
    \o <<Str("--- Firefox ---"), NL>> \o Body(firefox)

on_summary_text(files, logins, starts, chrome) ==
    <<Str("=== Zusammenfassung (dt) ==="), NL, NL>>
    \o <<Str("Dateien (letzte):"), NL>> \o Body(files) \o <<NL, NL>>
    \o <<Str("Letzte Logins:"), NL>> \o Body(logins) \o <<NL, NL>>
    \o <<Str("Letzte Systemstarts:"), NL>> \o Body(starts) \o <<NL, NL>>
    \o <<Str("Browser (Chrome, letzte 6):"), NL>> \o Body(chrome)

on_export_body(files, logins, starts, chrome, edge, firefox) ==
    <<Str("=== Export: WinActivityViewer Pro (dt) ==="), NL, NL>>
    \o <<Str("=== Dateien (Recent) ==="), NL>> \o Body(files) \o <<NL, NL>>
    \o <<Str("=== Logins/Logouts ==="), NL>> \o Body(logins) \o <<NL, NL>>
    \o <<Str("=== Start / Shutdown ==="), NL>> \o Body(starts) \o <<NL, NL>>
    \o <<Str("=== Chrome (Top) ==="), NL>> \o Body(chrome) \o <<NL, NL>>
    \o <<Str("=== Edge (Top) ==="), NL>> \o Body(edge) \o <<NL, NL>>
    \o <<Str("=== Firefox (Top) ==="), NL>> \o Body(firefox) \o <<NL>>

\* One extractor call of a handler: what it gave, the temporary files on
\* disk after it, and the handles it opened.
Call(name, r, tmp, opened) ==
    [name |-> name, raised |-> r.raised, value |-> r.value, tmp |-> tmp,
     opened |-> opened]

Opened(r) == IF r.opened THEN 1 ELSE 0

\* A handler's calls are made in order; an exception leaving one of them
\* leaves the handler, so the later ones are not made.
RECURSIVE Returned(_)
Returned(calls) ==
    IF calls = <<>> \/ Head(calls).raised THEN <<>>
    ELSE <<Head(calls)>> \o Returned(Tail(calls))

Attempted(calls) == Take(calls, Len(Returned(calls)) + 1)

RECURSIVE SumOpened(_)
SumOpened(calls) ==
    IF calls = <<>> THEN 0 ELSE Head(calls).opened + SumOpened(Tail(calls))

\* The state a handler leaves: calls, its extractor calls had none raised;
\* t, the text it builds from them; display, whether it passes t to
\* fade_in_output; finalised, whether dropped handle objects release their
\* handle.
Ran(name, calls, t, display, finalised) ==
    \E ret \in {Returned(calls)}, att \in {Attempted(calls)} :
        /\ handler' = name
        /\ invoked' = [i \in 1..Len(ret) |->
                          [name |-> ret[i].name, value |-> ret[i].value]]
        /\ text' = IF Len(ret) = Len(calls) THEN t ELSE <<>>
        /\ dialog' = IF Len(ret) = Len(calls) /\ ~display THEN "open" ELSE "none"
        /\ written' = <<>>
        /\ tmpFiles' = IF att = <<>> THEN tmpFiles ELSE att[Len(att)].tmp
        /\ handles' = IF finalised THEN handles ELSE handles + SumOpened(att)
        /\ IF Len(ret) = Len(calls) /\ display
           THEN SetPane(fade_in_output(t, Pane)) /\ shown' = splitlines(t)
           ELSE UNCHANGED fadeVars
        /\ UNCHANGED extractVars

\* The sources as a handler can find them: a folder with at most one entry,
\* channels with at most one record (of the code the handlers ask for),
\* history tables with at most one row.
PassDirs == {d \in Dirs : DOMAIN d.kind \subseteq {<<1>>}}

PassChannels(id) ==
    {c \in ChannelsOver({[id |-> id, tsOk |-> TRUE]}, 1) : c.batch = Len(c.log)}

PassDbs ==
    {d \in Dbs : /\ d.removeOk
                 /\ DOMAIN d.table \subseteq {1}
                 /\ \A t \in DOMAIN d.table : d.table[t].title = 1}

PassProfiles == {q \in Profiles : q.db \in PassDbs}

\* SpecPass follows the program from start-up through the first click:
\* handler = "none" is the event loop waiting for it.
on_files ==
    /\ handler = "none"
    /\ \E d \in PassDirs :
        \E files \in {get_recent_files(d, 80)} :
            \E calls \in {<<Call("get_recent_files", files, tmpFiles, 0)>>},
               t \in {on_files_text(files.value)} :
                Ran("on_files", calls, t, TRUE, TRUE)

on_logons ==
    /\ handler = "none"
    /\ \E sec \in PassChannels(4624), finalised \in BOOLEAN :
        \E logs \in {get_event_logs(sec, Ids({4624, 4634}), 80)} :
            \E calls \in {<<Call("get_event_logs", logs, tmpFiles, Opened(logs))>>},
               t \in {on_logons_text(logs.value)} :
                Ran("on_logons", calls, t, TRUE, finalised)

on_start ==
    /\ handler = "none"
    /\ \E sys \in PassChannels(6005), finalised \in BOOLEAN :
        \E logs \in {get_event_logs(sys, Ids({6005, 6006}), 80)} :
            \E calls \in {<<Call("get_event_logs", logs, tmpFiles, Opened(logs))>>},
               t \in {on_start_text(logs.value)} :
                Ran("on_start", calls, t, TRUE, finalised)

on_browser ==
    /\ handler = "none"
    /\ \E c \in PassDbs, e \in PassDbs, f \in PassProfiles :
        \E chrome \in {get_chrome_history(c, 12, tmpFiles)} :
        \E edge \in {get_edge_history(e, 12, chrome.tmp)} :
        \E firefox \in {get_firefox_history(f, 12, edge.tmp)} :
            \E calls \in {<<Call("get_chrome_history", chrome, chrome.tmp, 0),
                             Call("get_edge_history", edge, edge.tmp, 0),
                             Call("get_firefox_history", firefox, firefox.tmp, 0)>>},
               t \in {on_browser_text(chrome.value, edge.value, firefox.value)} :
                Ran("on_browser", calls, t, TRUE, TRUE)

on_summary ==
    /\ handler = "none"
    /\ \E d \in PassDirs, sec \in PassChannels(4624), sys \in PassChannels(6005),
          c \in PassDbs, finalised \in BOOLEAN :
        \E files \in {get_recent_files(d, 8)} :
        \E logins \in {get_event_logs(sec, Ids({4624}), 6)} :
        \E starts \in {get_event_logs(sys, Ids({6005}), 6)} :
        \E chrome \in {get_chrome_history(c, 6, tmpFiles)} :
            \E calls \in {<<Call("get_recent_files", files, tmpFiles, 0),
                             Call("get_event_logs", logins, tmpFiles, Opened(logins)),
                             Call("get_event_logs", starts, tmpFiles, Opened(starts)),
                             Call("get_chrome_history", chrome, chrome.tmp, 0)>>},
               t \in {on_summary_text(files.value, logins.value, starts.value,
                                      chrome.value)} :
                Ran("on_summary", calls, t, TRUE, finalised)

\* on_export up to the save dialog, which it then waits in
on_export ==
    /\ handler = "none"
    /\ \E d \in PassDirs, sec \in PassChannels(4624), sys \in PassChannels(6005),
          c \in PassDbs, e \in PassDbs, f \in PassProfiles, finalised \in BOOLEAN :
        \E files \in {get_recent_files(d, 50)} :
        \E logins \in {get_event_logs(sec, Ids({4624, 4634}), 200)} :
        \E starts \in {get_event_logs(sys, Ids({6005, 6006}), 200)} :
        \E chrome \in {get_chrome_history(c, 50, tmpFiles)} :
        \E edge \in {get_edge_history(e, 50, chrome.tmp)} :
        \E firefox \in {get_firefox_history(f, 50, edge.tmp)} :
            \E calls \in {<<Call("get_recent_files", files, tmpFiles, 0),
                             Call("get_event_logs", logins, tmpFiles, Opened(logins)),
                             Call("get_event_logs", starts, tmpFiles, Opened(starts)),
                             Call("get_chrome_history", chrome, chrome.tmp, 0),
                             Call("get_edge_history", edge, edge.tmp, 0),
                             Call("get_firefox_history", firefox, firefox.tmp, 0)>>},
               t \in {on_export_body(files.value, logins.value, starts.value,
                                     chrome.value, edge.value, firefox.value)} :
                Ran("on_export", calls, t, FALSE, finalised)

\* the rest of on_export: the dialog returns a file name or "", and the body
\* is written to the file, which can fail
on_export_save ==
    /\ handler = "on_export" /\ dialog = "open"
    /\ \E fname \in BOOLEAN, writeOk \in BOOLEAN :
        /\ dialog' = IF ~fname THEN "none"
                     ELSE IF writeOk THEN "information" ELSE "critical"
        /\ written' = IF fname /\ writeOk THEN text ELSE <<>>
    /\ UNCHANGED <<handler, invoked, text, extractVars, resVars, fadeVars>>

NextPass ==
    \/ on_files
    \/ on_logons
    \/ on_start
    \/ on_browser
    \/ on_summary
    \/ on_export
    \/ on_export_save

SpecPass == Init /\ [][NextPass]_vars

---------------------------------------------------------------------------
(* Claims about the extractors, checked under Spec *)

HistoryFns == {"get_chrome_history", "get_edge_history", "get_firefox_history"}

\* the history file a history extractor resolved
DbOf == IF fn = "get_firefox_history" THEN src.db ELSE src

\* the history file exists (for Firefox: in the first profile)
DbExists ==
    IF fn = "get_firefox_history"
    THEN src.exists /\ src.listOk /\ src.profs = 1 /\ src.db.exists
    ELSE src.exists

\* C1: whatever the extractor, the limit >= 0 and the state of the source,
\* the returned list has at most limit entries.
C1_AtMostLimit == fn # "none" => Len(result) <= limit

\* C2: when a history extractor's query_sqlite_file call has returned, no
\* temporary file that call allocated exists any more, provided the delete,
\* where attempted, succeeded.
C2_NoTempFileLeft ==
    (fn \in HistoryFns /\ DbOf.removeOk) => made \cap tmpFiles = {}

Code(e) == e.id % 65536
Matching(log, f) == SelectSeq(log, LAMBDA e : Code(e) \in f.ids)

\* C3: on a channel that opens and reads without error, with a set filter F
\* and a limit L >= 1, get_event_logs returns the first min(L, m) matching
\* records of the whole channel, newest first (m the number of matching
\* records in the channel), and examines no record after the L-th match.
C3_FirstMatchesOfChannel ==
    (/\ fn = "get_event_logs" /\ limit >= 1 /\ ~src.event_ids.none
     /\ src.ch.openOk /\ src.ch.readOk
     /\ \A i \in 1..Len(src.ch.log) : src.ch.log[i].tsOk)
    => LET m == Matching(src.ch.log, src.event_ids)
       IN  /\ Len(result) = Min(limit, Len(m))
           /\ \A i \in 1..Len(result) : result[i] = EventLine(Code(m[i]))
           /\ examined >= 1 =>
                Len(Matching(SubSeq(src.ch.log, 1, examined - 1), src.event_ids))
                    < limit

\* the file or folder a file-based extractor resolves is missing
FileSourceAbsent ==
    \/ fn \in {"get_recent_files", "get_chrome_history", "get_edge_history"}
       /\ ~src.exists
    \/ fn = "get_firefox_history"
       /\ (~src.exists \/ (src.listOk /\ (src.profs = 0 \/ ~src.db.exists)))

\* the channel cannot be opened, as when it does not exist
ChannelAbsent == fn = "get_event_logs" /\ ~src.ch.openOk

\* C4: if the source an extractor resolves (folder, history file, channel)
\* does not exist, the extractor returns an empty list and raises nothing.
C4_AbsentGivesEmpty ==
    (FileSourceAbsent \/ ChannelAbsent) => (result = <<>> /\ ~raised)

\* C4 as amended: a missing folder or history file gives an empty list; a
\* channel that cannot be opened gives exactly one diagnostic line; in no
\* case does an exception reach the caller.
C4_AbsentGivesEmptyOrDiagnostic ==
    /\ FileSourceAbsent => (result = <<>> /\ ~raised)
    /\ ChannelAbsent =>
         (Len(result) = 1 /\ result[1][1] = Str("Fehler: ") /\ ~raised)

C4_Witness ==
    /\ fn = "get_event_logs" /\ ~src.ch.openOk
    /\ Len(result) = 1 /\ result[1][1] = Str("Fehler: ")

\* C6: between extractor calls no event-log handle is open.
C6_NoHandleLeftOpen == handles = 0

\* C8: a history extractor called with limit 0 on an existing history file
\* returns the empty list without copying a snapshot or opening the store.
C8_LimitZeroOpensNothing ==
    (fn \in HistoryFns /\ limit = 0 /\ DbExists)
    => (result = <<>> /\ copies = 0 /\ opens = 0)

\* C8 as amended: a history extractor called with limit 0 on an existing
\* history file returns the empty list; the snapshot is copied all the same
\* and, when the copy succeeds, the store is opened and queried.
C8_LimitZeroGivesEmpty ==
    (fn \in HistoryFns /\ limit = 0 /\ DbExists)
    => /\ result = <<>>
       /\ opens = copies
       /\ (DbOf.mkstempOk /\ DbOf.copyOk) => copies = 1

C8_Witness ==
    /\ fn = "get_chrome_history" /\ limit = 0 /\ src.exists
    /\ src.table # <<>> /\ copies = 1 /\ opens = 1 /\ result = <<>>

\* the file names an extractor returned
ResultNames == [i \in 1..Len(result) |-> result[i][1].a]

\* C9: on a readable Recent folder get_recent_files returns regular files
\* only, in strictly descending name order, as many as the limit allows
\* counting files alone, and every file left out sorts after all returned.
C9_RecentFiles ==
    (fn = "get_recent_files" /\ src.exists /\ src.listOk)
    => LET files == {n \in DOMAIN src.kind : src.kind[n] = "file"}
           names == ResultNames
           kept == {names[i] : i \in 1..Len(names)}
       IN  /\ Len(names) = Min(limit, Cardinality(files))
           /\ kept \subseteq files
           /\ \A i \in 1..Len(names) : \A j \in 1..Len(names) :
                i < j => LexLess(names[j], names[i])
           /\ \A n \in files \ kept : \A i \in 1..Len(names) :
                LexLess(n, names[i])

\* files "2" and "1" and a subdirectory "21", limit 3: ["2", "1"]
C9_Witness ==
    /\ fn = "get_recent_files" /\ limit = 3 /\ src.exists /\ src.listOk
    /\ DOMAIN src.kind = {<<1>>, <<2>>, <<2, 1>>}
    /\ src.kind[<<1>>] = "file" /\ src.kind[<<2>>] = "file"
    /\ src.kind[<<2, 1>>] = "dir"
    /\ ResultNames = <<<<2>>, <<1>>>>

---------------------------------------------------------------------------
(* Claim about the reveal, checked under SpecFade *)

\* C10: after the last fade_in_output call, with text T, the pane never
\* holds anything but the lines of T revealed so far, in order and once each.
C10_PaneIsPrefixOfLastText ==
    /\ Len(output) <= Len(shown)
    /\ output = SubSeq(shown, 1, Len(output))

---------------------------------------------------------------------------
(* Claims about the collection passes, checked under SpecPass *)

PassHandlers == {"on_export", "on_summary", "on_browser"}

\* the extractors a handler calls, in order
Configured ==
    [on_export |-> <<"get_recent_files", "get_event_logs", "get_event_logs",
                     "get_chrome_history", "get_edge_history",
                     "get_firefox_history">>,
     on_summary |-> <<"get_recent_files", "get_event_logs", "get_event_logs",
                      "get_chrome_history">>,
     on_browser |-> <<"get_chrome_history", "get_edge_history",
                      "get_firefox_history">>]

\* the header of the section each of those calls fills
SectionHeaders ==
    [on_export |-> <<"=== Dateien (Recent) ===", "=== Logins/Logouts ===",
                     "=== Start / Shutdown ===", "=== Chrome (Top) ===",
                     "=== Edge (Top) ===", "=== Firefox (Top) ===">>,
     on_summary |-> <<"Dateien (letzte):", "Letzte Logins:",
                      "Letzte Systemstarts:", "Browser (Chrome, letzte 6):">>,
     on_browser |-> <<"--- Chrome ---", "--- Edge ---", "--- Firefox ---">>]

\* line i of ls is the header h and the lines after it are the items, or the
\* placeholder when there are none
SectionAt(ls, i, h, items) ==
    /\ ls[i] = <<Str(h)>>
    /\ IF items = <<>> THEN i + 1 <= Len(ls) /\ ls[i + 1] = Keine
       ELSE /\ i + Len(items) <= Len(ls)
            /\ SubSeq(ls, i + 1, i + Len(items)) = items

\* C5: in a pass of on_export, on_summary or on_browser every configured
\* extractor is called and returns, whatever the other sources did, and the
\* built text holds the section of each, once, in the configured order, with
\* that extractor's entries or the placeholder.
C5_EveryExtractorRunsAndAppears ==
    handler \in PassHandlers
    => LET ls == splitlines(text)
           hs == SectionHeaders[handler]
           at == [k \in 1..Len(hs) |-> {i \in 1..Len(ls) : ls[i] = <<Str(hs[k])>>}]
       IN  /\ [i \in 1..Len(invoked) |-> invoked[i].name] = Configured[handler]
           /\ \A k \in 1..Len(hs) :
                /\ Cardinality(at[k]) = 1
                /\ \A i \in at[k] : SectionAt(ls, i, hs[k], invoked[k].value)
           /\ \A k \in 1..(Len(hs) - 1) :
                \A i \in at[k] : \A j \in at[k + 1] : i < j

\* an export in which the Security channel could not be opened, the System
\* channel could not be read, a snapshot copy failed, Chrome gave nothing
\* and Firefox gave a visit
C5_Witness ==
    /\ handler = "on_export" /\ Len(invoked) = 6
    /\ invoked[2].value = <<Fehler>> /\ invoked[3].value = <<FehlerLesen>>
    /\ tmpFiles # {}
    /\ invoked[4].value = <<>> /\ invoked[6].value # <<>>
    /\ \E i \in 1..Len(splitlines(text)) :
            splitlines(text)[i] = <<Str("=== Firefox (Top) ===")>>

\* the section headers of the program and the category each stands for
Headers ==
    {[line |-> "Dateien (letzte):", cat |-> "RecentFile"],
     [line |-> "=== Dateien (Recent) ===", cat |-> "RecentFile"],
     [line |-> "Zuletzt geoeffnete Dateien:", cat |-> "RecentFile"],
     [line |-> "Letzte Logins:", cat |-> "Login"],
     [line |-> "=== Logins/Logouts ===", cat |-> "Login"],
     [line |-> "An-/Abmeldungen:", cat |-> "Login"],
     [line |-> "Letzte Systemstarts:", cat |-> "SystemStart"],
     [line |-> "=== Start / Shutdown ===", cat |-> "SystemStart"],
     [line |-> "Start / Herunterfahren:", cat |-> "SystemStart"],
     [line |-> "Browser (Chrome, letzte 6):", cat |-> "Chrome"],
     [line |-> "=== Chrome (Top) ===", cat |-> "Chrome"],
     [line |-> "--- Chrome ---", cat |-> "Chrome"],
     [line |-> "=== Edge (Top) ===", cat |-> "Edge"],
     [line |-> "--- Edge ---", cat |-> "Edge"],
     [line |-> "=== Firefox (Top) ===", cat |-> "Firefox"],
     [line |-> "--- Firefox ---", cat |-> "Firefox"]}

\* ls has a header of category c immediately followed by the placeholder
EmptySection(ls, c) ==
    \E h \in Headers : /\ h.cat = c
                       /\ \E i \in 1..(Len(ls) - 1) :
                            ls[i] = <<Str(h.line)>> /\ ls[i + 1] = Keine

\* ls has a header of category c
HasSection(ls, c) ==
    \E h \in Headers : h.cat = c /\ \E i \in 1..Len(ls) : ls[i] = <<Str(h.line)>>

AllEmpty == \A i \in 1..Len(invoked) : invoked[i].value = <<>>

\* C7: when every extractor returns an empty list, the Summary text has a
\* header for every category (recent files, logins, system starts, and each
\* of Chrome, Edge and Firefox), each directly followed by the placeholder.
C7_SummaryHasEveryCategory ==
    (handler = "on_summary" /\ AllEmpty)
    => \A c \in {"RecentFile", "Login", "SystemStart", "Chrome", "Edge", "Firefox"} :
            EmptySection(splitlines(text), c)

\* C7 as amended: when every extractor on_summary calls returns an empty
\* list, the Summary text has a header for recent files, logins, system
\* starts and Chrome, each directly followed by the placeholder; it has no
\* section for Edge or Firefox, which on_summary does not query.
C7_SummaryHasItsFourCategories ==
    (handler = "on_summary" /\ AllEmpty)
    => /\ \A c \in {"RecentFile", "Login", "SystemStart", "Chrome"} :
            EmptySection(splitlines(text), c)
       /\ \A c \in {"Edge", "Firefox"} : ~HasSection(splitlines(text), c)

C7_Witness ==
    /\ handler = "on_summary" /\ Len(invoked) = 4 /\ AllEmpty
    /\ Len(splitlines(text)) > 0

=============================================================================
